---- MODULE Spec2Model ----
(***************************************************************************)
(* Request-orchestration layer of degiroasync:                             *)
(*   - ThrottlingClient._throttle   sliding-window admission control       *)
(*   - ThrottlingClient.__aenter__/__aexit__   shared, counted transport   *)
(*   - ProductFactory.init_batch    chunked concurrent entity resolution   *)
(*   - lru_cache_timed              time-bucketed memoizer                 *)
(* Scheduling is asyncio's: one task runs at a time and control changes    *)
(* hands only at an await, so every action below is the code between two   *)
(* suspension points.                                                      *)
(***************************************************************************)
EXTENDS Integers, Sequences, FiniteSets, TLC

\* ---- bounds of the model
MaxTime == 5
MaxRequests == 2
MaxPeriod == 2
NThrottleTasks == 3
MaxCalls == 4
MaxUpdates == 1
NClientTasks == 2
MaxClients == 2
MaxOpens == 2
MaxLen == 3
MaxSize == 2
MaxSeconds == 2
MaxCacheSize == 2
NCallers == 2
MaxMemoCalls == 3
MaxMemoTime == 2
NLoginTasks == 2
MaxLogins == 2
MaxLoginTime == 2
limit == 2
MaxTotal == 5

VARIABLES
    now,             \* time.time(), in clock ticks
    \* ThrottlingClient admission control
    max_requests,    \* self._max_requests
    period_s,        \* self._period_s
    requests_times,  \* self._requests_times
    tpc,             \* per caller: "idle", "sleep" (asyncio.sleep), "send" (awaiting method)
    wake_at,         \* per caller: the time its asyncio.sleep ends
    forwarded,       \* history: the time of every call forwarded to the wrapped method
    slept,           \* history: per caller, whether its current call was ever suspended
    naps,            \* history: per caller, the times its current call was suspended
    passes,          \* history: per forwarded call [unlimited (max_requests <= 0 when it was
                     \*   made), slept, naps, stamped (its time was appended to the window),
                     \*   over (the stamps in the window it was forwarded over)]
    updates,         \* history: the update_throttling calls made so far
    \* ThrottlingClient scoped acquisition; 0 stands for None, n > 0 for the n-th
    \* httpx.AsyncClient constructed
    async_client,    \* self._async_client
    client_open,     \* self._client_open
    count_open,      \* self._count_open
    hstate,          \* per httpx client: "unopened", "opened", "closed"
    nclients,        \* httpx clients constructed so far
    opens,           \* history: per httpx client, the __aenter__ calls made on it
    cpc,             \* per task: "out", "opening", "in", "closing"
    target,          \* per task: the httpx client its pending __aenter__/__aexit__ is on
    result,          \* history: per task, how its last __aenter__, send or __aexit__ ended
    \* ProductFactory.init_batch
    attributes_iter, \* the input records, each [n |-> its position, id |-> its 'id' or NoId]
    size,            \* the chunk size
    gpc,             \* the generator: "created", "chunking", "await", "yielded", "drain",
                     \*   "finished", "raised", "closed"
    consumed,        \* records taken from attributes_iter
    attributes_batch,\* the chunk being filled
    batches_awt,     \* the chunk tasks: [attrs, st, info]; st is "pending" (created, not
                     \*   yet run), "called" (awaiting webapi.get_products_info), "done", "failed"
    calls,           \* history: the get_products_info calls issued, [task, ids]
    completed,       \* history: the chunk tasks in the order they completed
    ind,             \* the chunk the yield loop is at
    pos,             \* products taken from the current chunk's batch
    products_dict,   \* __products_from_attrs' products_dict for the current batch
    ninst,           \* product instances constructed so far
    out,             \* history: the products yielded, [inst, base, info]
    awaited,         \* history: the chunk tasks the generator's await has returned from
    exc,             \* what the generator raised: [kind, task], kind "none", "validation" or "task"
    drain_i,         \* the except block's loop index
    \* lru_cache_timed
    seconds,         \* the decorator's seconds (0 stands for None)
    maxsize,         \* the decorator's maxsize
    is_async,        \* asyncio.iscoroutinefunction(func)
    first_start,     \* first_start, a list of at most one time
    cache,           \* the lru_cache of _in, least recently used first: [key, val]
    ninv,            \* invocations of the wrapped func so far
    pending,         \* the async calls inside "await func(...)": [key, val, call]
    log,             \* history: per call of _out [arg, t, time_key, invoked, val, st, live,
                     \*   during, dropped]
    \* api.login and its lockout
    login_failure_hash, \* _LOGIN_FAILURE_HASH, as the set of the hashed strings it holds
    lpc,             \* per task: "idle", "post" and "totp" (webapi.login awaiting a post),
                     \*   "config" (awaiting get_config), "rest" (get_client_info, get_dictionary)
    lcred,           \* per task: the credentials of its login call
    lidx,            \* per task: the place of its login call in attempts
    attempts,        \* history: per api.login call [cred, safeguard, t, forwarded (webapi.login
                     \*   was called), last_fail (fail_time at the call), verdict (last_verdict
                     \*   at the call), prior_bad (the earlier
                     \*   calls with equal credentials that had raised BadCredentialsError),
                     \*   config (get_config was called), outcome]
    fail_time,       \* history: per hashed string, when it was last added (-1: never)
    last_verdict,    \* history: per hashed string, how the last webapi.login that got the
                     \*   server's verdict ended: "bad" (BadCredentialsError), "ok", or "none"
    \* check_response and webapi.login on one response
    r_response,      \* the response of the endpoint
    r_credentials,   \* the credentials webapi.login is called with
    r_jsessionid,    \* whether the response carries the session cookie
    raised,          \* what check_response(r_response) raised ("unchecked" before the call)
    login_raised,    \* what webapi.login raised, or "totp" ("uncalled" before the call)
    \* api.search_product
    spc,             \* search_product: "start", "first" (awaiting the offset 0 fetch),
                     \*   "gather" (awaiting asyncio.gather), "returned", "raised"
    total,           \* total, as the offset 0 fetch reported it
    n_unfiltered,    \* n_unfiltered of the offset 0 fetch
    products,        \* products
    pages,           \* the tasks of gather in argument order: [offset, st, prods]; st is
                     \*   "new", "flight", "done" or "failed"
    fetches,         \* history: the offsets of the fetches in the order they were issued
    finished,        \* history: the pages in the order their fetches returned or raised
    answer,          \* the list search_product returned
    s_exc,           \* the offset of the fetch whose exception search_product raised (-1: none)
    s_product_type_id, \* the product_type_id search_product was called with
    sent_types,      \* history: per fetch issued, the product_type_id _search_one sent to
                     \*   the endpoint and filtered its products on
    \* ProductFactory.__products_from_attrs on one payload
    f_products_info, \* products_info: per id the payload resolved, its entity-type code
    f_base_iter,     \* products_base_iter, as the ids of the base records
    f_products_dict, \* products_dict: per id, the instance built for it
    f_taken,         \* base records taken by the for loop
    f_yielded,       \* history: the instances yielded, [id, cls, code, member (the code
                     \*   was converted to a PRODUCT.TYPEID member), reused]
    f_raised         \* what the generator raised ("none" while it has not)

throttleVars == <<max_requests, period_s, requests_times, tpc, wake_at, forwarded, slept,
                  naps, passes, updates>>
clientVars == <<async_client, client_open, count_open, hstate, nclients, opens, cpc, target, result>>
batchVars == <<attributes_iter, size, gpc, consumed, attributes_batch, batches_awt, calls, completed,
               ind, pos, products_dict, ninst, out, awaited, exc, drain_i>>
memoVars == <<seconds, maxsize, is_async, first_start, cache, ninv, pending, log>>
loginVars == <<login_failure_hash, lpc, lcred, lidx, attempts, fail_time, last_verdict>>
responseVars == <<r_response, r_credentials, r_jsessionid, raised, login_raised>>
searchVars == <<spc, total, n_unfiltered, products, pages, fetches, finished, answer, s_exc,
                s_product_type_id, sent_types>>
factoryVars == <<f_products_info, f_base_iter, f_products_dict, f_taken, f_yielded, f_raised>>
vars == <<now, throttleVars, clientVars, batchVars, memoVars, loginVars, responseVars, searchVars,
          factoryVars>>

\* Each part of the layer is exercised on its own; its actions leave the rest alone.
OnlyThrottle ==
    UNCHANGED <<clientVars, batchVars, memoVars, loginVars, responseVars, searchVars, factoryVars>>
OnlyClient ==
    UNCHANGED <<now, throttleVars, batchVars, memoVars, loginVars, responseVars, searchVars, factoryVars>>
OnlyBatch ==
    UNCHANGED <<now, throttleVars, clientVars, memoVars, loginVars, responseVars, searchVars, factoryVars>>
OnlyMemo ==
    UNCHANGED <<now, throttleVars, clientVars, batchVars, loginVars, responseVars, searchVars, factoryVars>>
OnlyLogin ==
    UNCHANGED <<now, throttleVars, clientVars, batchVars, memoVars, responseVars, searchVars, factoryVars>>
OnlyResponse ==
    UNCHANGED <<now, throttleVars, clientVars, batchVars, memoVars, loginVars, searchVars, factoryVars>>
OnlySearch ==
    UNCHANGED <<now, throttleVars, clientVars, batchVars, memoVars, loginVars, responseVars, factoryVars>>
OnlyFactory ==
    UNCHANGED <<now, throttleVars, clientVars, batchVars, memoVars, loginVars, responseVars, searchVars>>

TTasks == 1..NThrottleTasks
CTasks == 1..NClientTasks
Clients == 1..MaxClients
Ids == {"A", "B"}
NoId == "none"
Args == {"x", "y"}

\* PRODUCT.TYPEID, an IntEnum
STOCK == 1
CURRENCY == 311
TYPEID == {STOCK, 180, 2, 7, 8, 13, 14, 131, 535, 536, CURRENCY}

\* ------------------------------------------------------------------------
\* ThrottlingClient._throttle
\* ------------------------------------------------------------------------

\* the while condition: a positive budget and a window holding it all
WindowFullOffByOne(times) == max_requests > 0 /\ Len(times) > max_requests
WindowFull(times) == max_requests > 0 /\ Len(times) >= max_requests

\* "Clean register": count the stamps older than the period ...
ToDel(times, t) == Cardinality({i \in 1..Len(times) : t - times[i] > period_s})

\* ... and pop that many from the front
Prune(times, t) == SubSeq(times, ToDel(times, t) + 1, Len(times))

\* "time_delta = self._requests_times[0] + self._period_s - time.time()"
TimeDeltaPastClock(times, t) == MaxTime + 1 - t
TimeDelta(times, t) == times[1] + period_s - t

\* The while loop, run from clock value t until it suspends or exits.
\* sleep > 0: the caller suspends in asyncio.sleep(sleep); sleep = 0: the loop
\* exited.  An iteration that neither prunes nor sleeps (the oldest stamp is
\* exactly period_s old) repeats without suspending until the clock moves.
RECURSIVE ThrottleLoop(_, _)
ThrottleLoop(times, t) ==
    IF WindowFull(times)
    THEN LET pruned == Prune(times, t) IN
         IF Len(pruned) > 0 /\ TimeDelta(pruned, t) > 0
         THEN [times |-> pruned, t |-> t, sleep |-> TimeDelta(pruned, t)]
         ELSE ThrottleLoop(pruned, IF pruned = times THEN t + 1 ELSE t)
    ELSE [times |-> times, t |-> t, sleep |-> 0]

\* asyncio.sleep has returned: the wrapper is back at the while condition, which
\* it evaluates anew on the window as it is now
AfterSleepAdmits(times, t) == [times |-> times, t |-> t, sleep |-> 0]
AfterSleep(times, t) == ThrottleLoop(times, t)

\* after the loop: record the admission
AdmitAlways(times, t) == Append(times, t)
Admit(times, t) == IF max_requests > 0 THEN Append(times, t) ELSE times

\* the wrapper from its (re)entry to its next suspension point
RunThrottle(c) ==
    LET r == IF tpc[c] = "sleep" THEN AfterSleep(requests_times, now)
             ELSE ThrottleLoop(requests_times, now) IN
    /\ r.t <= MaxTime
    /\ now' = r.t
    /\ IF r.sleep > 0
       THEN /\ requests_times' = r.times
            /\ tpc' = [tpc EXCEPT ![c] = "sleep"]
            /\ wake_at' = [wake_at EXCEPT ![c] = r.t + r.sleep]
            /\ slept' = [slept EXCEPT ![c] = TRUE]
            /\ naps' = [naps EXCEPT ![c] = IF tpc[c] = "idle" THEN 1 ELSE naps[c] + 1]
            /\ UNCHANGED <<forwarded, passes>>
       ELSE /\ requests_times' = Admit(r.times, r.t)
            /\ tpc' = [tpc EXCEPT ![c] = "send"]
            /\ forwarded' = Append(forwarded, r.t)
            /\ slept' = [slept EXCEPT ![c] = (tpc[c] = "sleep")]
            /\ passes' = Append(passes,
                    [unlimited |-> tpc[c] = "idle" /\ max_requests <= 0,
                     slept |-> tpc[c] = "sleep",
                     naps |-> IF tpc[c] = "idle" THEN 0 ELSE naps[c],
                     stamped |-> Admit(r.times, r.t) # r.times,
                     over |-> Len(r.times)])
            /\ naps' = [naps EXCEPT ![c] = IF tpc[c] = "idle" THEN 0 ELSE naps[c]]
            /\ UNCHANGED wake_at
    /\ UNCHANGED <<max_requests, period_s, updates>>

\* a task calls get/post/put/request/head/options/delete
ThrottledCall(c) ==
    /\ OnlyThrottle
    /\ tpc[c] = "idle"
    /\ Len(forwarded) + Cardinality({d \in TTasks : tpc[d] = "sleep"}) < MaxCalls
    /\ RunThrottle(c)

\* asyncio.sleep(time_delta) returns, at its deadline or later
ThrottleWake(c) ==
    /\ OnlyThrottle
    /\ tpc[c] = "sleep"
    /\ now >= wake_at[c]
    /\ RunThrottle(c)

\* the wrapped method returns
MethodReturn(c) ==
    /\ OnlyThrottle
    /\ tpc[c] = "send"
    /\ tpc' = [tpc EXCEPT ![c] = "idle"]
    /\ UNCHANGED <<now, max_requests, period_s, requests_times, wake_at, forwarded, slept,
                   naps, passes, updates>>

\* SessionCore.update_throttling on a session whose ThrottlingClient exists
update_throttling(m, p) ==
    /\ OnlyThrottle
    /\ updates < MaxUpdates
    /\ <<m, p>> # <<max_requests, period_s>>
    /\ max_requests' = m
    /\ period_s' = p
    /\ updates' = updates + 1
    /\ UNCHANGED <<now, requests_times, tpc, wake_at, forwarded, slept, naps, passes>>

\* the clock moves
Tick(last) ==
    /\ now < last
    /\ now' = now + 1
    /\ UNCHANGED <<throttleVars, clientVars, batchVars, memoVars, loginVars, responseVars, searchVars,
                   factoryVars>>

\* ------------------------------------------------------------------------
\* ThrottlingClient.__aenter__ / __aexit__ / get
\* httpx.AsyncClient.__aenter__ refuses a client that is not unopened and marks it
\* opened before it awaits its transport; __aexit__ marks it closed before it
\* awaits the transport's close; a send on a closed client is refused.
\* ------------------------------------------------------------------------

\* "if self._async_client is None": construct a client
NeedsClient == async_client = 0

\* "if self._client_open is None": open it
NeedsOpen == client_open = 0

\* __aenter__ up to its await (or to its return when nothing is awaited)
EnterBegin(t) ==
    /\ OnlyClient
    /\ cpc[t] = "out"
    /\ NeedsClient => nclients < MaxClients
    /\ (~NeedsClient /\ NeedsOpen) => opens[async_client] < MaxOpens
    /\ LET made == IF NeedsClient THEN nclients + 1 ELSE async_client IN
       /\ async_client' = made
       /\ nclients' = IF NeedsClient THEN nclients + 1 ELSE nclients
       /\ IF NeedsOpen
          THEN /\ opens' = [opens EXCEPT ![made] = @ + 1]
               /\ IF hstate[made] = "unopened"
                  THEN /\ hstate' = [hstate EXCEPT ![made] = "opened"]
                       /\ cpc' = [cpc EXCEPT ![t] = "opening"]
                       /\ target' = [target EXCEPT ![t] = made]
                       /\ result' = [result EXCEPT ![t] = "pending"]
                  ELSE \* RuntimeError out of httpx: __aenter__ raises
                       /\ result' = [result EXCEPT ![t] = "enter_raised"]
                       /\ UNCHANGED <<hstate, cpc, target>>
               /\ UNCHANGED count_open
          ELSE /\ count_open' = count_open + 1
               /\ cpc' = [cpc EXCEPT ![t] = "in"]
               /\ result' = [result EXCEPT ![t] = "entered"]
               /\ UNCHANGED <<hstate, opens, target>>
    /\ UNCHANGED client_open

\* the awaited httpx __aenter__ returns its client
EnterFinish(t) ==
    /\ OnlyClient
    /\ cpc[t] = "opening"
    /\ client_open' = target[t]
    /\ count_open' = count_open + 1
    /\ cpc' = [cpc EXCEPT ![t] = "in"]
    /\ result' = [result EXCEPT ![t] = "entered"]
    /\ UNCHANGED <<async_client, hstate, nclients, opens, target>>

\* get/post/...: self._client_open.get(...)
ClientSend(t) ==
    /\ OnlyClient
    /\ cpc[t] = "in"
    /\ result' = [result EXCEPT ![t] =
                     IF client_open = 0 THEN "send_on_none"
                     ELSE IF hstate[client_open] = "closed" THEN "send_on_closed"
                     ELSE "sent"]
    /\ UNCHANGED <<async_client, client_open, count_open, hstate, nclients, opens, cpc, target>>

\* __aexit__ up to its await (or to its return)
ExitBegin(t) ==
    /\ OnlyClient
    /\ cpc[t] = "in"
    /\ count_open' = count_open - 1
    /\ IF count_open - 1 <= 0
       THEN IF async_client = 0
            THEN \* AttributeError: None has no __aexit__
                 /\ cpc' = [cpc EXCEPT ![t] = "out"]
                 /\ result' = [result EXCEPT ![t] = "exit_raised"]
                 /\ UNCHANGED <<hstate, target>>
            ELSE /\ hstate' = [hstate EXCEPT ![async_client] = "closed"]
                 /\ cpc' = [cpc EXCEPT ![t] = "closing"]
                 /\ target' = [target EXCEPT ![t] = async_client]
                 /\ result' = [result EXCEPT ![t] = "pending"]
       ELSE /\ cpc' = [cpc EXCEPT ![t] = "out"]
            /\ result' = [result EXCEPT ![t] = "exited"]
            /\ UNCHANGED <<hstate, target>>
    /\ UNCHANGED <<async_client, client_open, nclients, opens>>

\* the awaited httpx __aexit__ returns
ExitFinish(t) ==
    /\ OnlyClient
    /\ cpc[t] = "closing"
    /\ async_client' = 0
    /\ client_open' = 0
    /\ cpc' = [cpc EXCEPT ![t] = "out"]
    /\ result' = [result EXCEPT ![t] = "exited"]
    /\ UNCHANGED <<count_open, hstate, nclients, opens, target>>

InitClient ==
    /\ async_client = 0
    /\ client_open = 0
    /\ count_open = 0
    /\ hstate = [c \in Clients |-> "unopened"]
    /\ nclients = 0
    /\ opens = [c \in Clients |-> 0]
    /\ cpc = [t \in CTasks |-> "out"]
    /\ target = [t \in CTasks |-> 0]
    /\ result = [t \in CTasks |-> "none"]

\* ------------------------------------------------------------------------
\* ProductFactory.init_batch / _create_batch / __products_from_attrs
\* ------------------------------------------------------------------------

NTasks == Len(batches_awt)

\* asyncio.create_task(cls._create_batch(session, attrs)): scheduled, not yet run
NewTask(attrs) == [attrs |-> attrs, st |-> "pending", info |-> <<>>]

\* a generator that is suspended or over has handed the event loop back
LoopFree == gpc \in {"await", "yielded", "drain", "finished", "raised", "closed"}

\* "if ind % size == 0"
ChunkFull(n) == n % size = 0

\* the consumer's first __anext__ starts the generator body
GenStart ==
    /\ OnlyBatch
    /\ gpc = "created"
    /\ gpc' = "chunking"
    /\ UNCHANGED <<attributes_iter, size, consumed, attributes_batch, batches_awt, calls, completed,
                   ind, pos, products_dict, ninst, out, awaited, exc, drain_i>>

\* one turn of "for ind, attributes in enumerate(attributes_iter, 1)"
ChunkStep ==
    /\ OnlyBatch
    /\ gpc = "chunking"
    /\ consumed < Len(attributes_iter)
    /\ LET attributes == attributes_iter[consumed + 1]
           filled == Append(attributes_batch, attributes) IN
       /\ consumed' = consumed + 1
       /\ IF attributes.id = NoId
          THEN \* ProductBase.Base(attributes) raises: no 'id'
               /\ gpc' = "raised"
               /\ exc' = [kind |-> "validation", task |-> 0]
               /\ UNCHANGED <<attributes_batch, batches_awt>>
          ELSE /\ IF ChunkFull(consumed + 1)
                  THEN /\ batches_awt' = Append(batches_awt, NewTask(filled))
                       /\ attributes_batch' = <<>>
                  ELSE /\ attributes_batch' = filled
                       /\ UNCHANGED batches_awt
               /\ UNCHANGED <<gpc, exc>>
    /\ UNCHANGED <<attributes_iter, size, calls, completed, ind, pos, products_dict, ninst, out,
                   awaited, drain_i>>

\* the input is exhausted: schedule the trailing chunk and enter the yield loop
ChunkEnd ==
    /\ OnlyBatch
    /\ gpc = "chunking"
    /\ consumed = Len(attributes_iter)
    /\ LET tasks == IF Len(attributes_batch) > 0
                    THEN Append(batches_awt, NewTask(attributes_batch))
                    ELSE batches_awt IN
       /\ batches_awt' = tasks
       /\ IF Len(tasks) > 0
          THEN gpc' = "await" /\ ind' = 1
          ELSE gpc' = "finished" /\ UNCHANGED ind
    /\ UNCHANGED <<attributes_iter, size, consumed, attributes_batch, calls, completed, pos,
                   products_dict, ninst, out, awaited, exc, drain_i>>

\* ---- _create_batch, run as a task

RECURSIVE Orderings(_)
Orderings(S) ==
    IF S = {} THEN {<<>>}
    ELSE UNION {{<<x>> \o o : o \in Orderings(S \ {x})} : x \in S}

\* "ids_batch = list(set(ids_batch))": the distinct ids, in whatever order the set gives
IdsBatchNoDedup(attrs) == {[j \in 1..Len(attrs) |-> attrs[j].id]}
IdsBatch(attrs) == Orderings({attrs[j].id : j \in 1..Len(attrs)})

\* the task runs up to "await webapi.get_products_info(session, ids_batch)"
TaskStart(i) ==
    /\ OnlyBatch
    /\ LoopFree
    /\ i \in 1..NTasks
    /\ batches_awt[i].st = "pending"
    /\ \E ids \in IdsBatch(batches_awt[i].attrs) :
          calls' = Append(calls, [task |-> i, ids |-> ids])
    /\ batches_awt' = [batches_awt EXCEPT ![i].st = "called"]
    /\ UNCHANGED <<completed, attributes_iter, size, gpc, consumed, attributes_batch, ind, pos,
                   products_dict, ninst, out, awaited, exc, drain_i>>

\* the call the task made: its number in calls
CallOf(i) == CHOOSE c \in 1..Len(calls) : calls[c].task = i

\* resp['data']: the payload the endpoint resolved for each id asked, here the id
\* and the call that fetched it
ProductsInfo(c) ==
    [x \in {calls[c].ids[j] : j \in 1..Len(calls[c].ids)} |-> [id |-> x, call |-> c]]

\* get_products_info returns: the task completes with the batch to build
TaskReturn(i) ==
    /\ OnlyBatch
    /\ LoopFree
    /\ i \in 1..NTasks
    /\ batches_awt[i].st = "called"
    /\ batches_awt' = [batches_awt EXCEPT ![i].st = "done",
                                          ![i].info = ProductsInfo(CallOf(i))]
    /\ completed' = Append(completed, i)
    /\ UNCHANGED <<attributes_iter, size, gpc, consumed, attributes_batch, calls, ind, pos,
                   products_dict, ninst, out, awaited, exc, drain_i>>

\* get_products_info raises (transport error): the task completes with the exception
TaskRaise(i) ==
    /\ OnlyBatch
    /\ LoopFree
    /\ i \in 1..NTasks
    /\ batches_awt[i].st = "called"
    /\ batches_awt' = [batches_awt EXCEPT ![i].st = "failed"]
    /\ completed' = Append(completed, i)
    /\ UNCHANGED <<attributes_iter, size, gpc, consumed, attributes_batch, calls, ind, pos,
                   products_dict, ninst, out, awaited, exc, drain_i>>

\* ---- __products_from_attrs, a generator: one turn of its loop per product taken

\* the product for product_base: the one products_dict (d) already holds for its
\* id, or a new instance built from the base record and the id's info
AlwaysNewProduct(product_base, info, d) ==
    [inst |-> ninst + 1, base |-> product_base.n, info |-> info[product_base.id]]
ProductFor(product_base, info, d) ==
    IF product_base.id \in DOMAIN d
    THEN d[product_base.id]
    ELSE [inst |-> ninst + 1, base |-> product_base.n, info |-> info[product_base.id]]

\* "for product_base in products_base_iter": the record after the p already taken
BaseAtFromEnd(attrs, p) == attrs[Len(attrs) - p]
BaseAt(attrs, p) == attrs[p + 1]

\* "for product in batch: yield product", one product: d is products_dict and p
\* the number of products already taken from batch i
YieldProduct(i, d, p) ==
    LET product_base == BaseAt(batches_awt[i].attrs, p)
        instance == ProductFor(product_base, batches_awt[i].info, d) IN
    /\ products_dict' = (product_base.id :> instance) @@ d
    /\ ninst' = IF instance.inst > ninst THEN instance.inst ELSE ninst
    /\ out' = Append(out, instance)
    /\ pos' = p + 1
    /\ gpc' = "yielded"

\* ---- the yield loop of init_batch

\* "batch = await batch_awt" returns: the first product of the batch is yielded
GenAwaitReturn ==
    /\ OnlyBatch
    /\ gpc = "await"
    /\ batches_awt[ind].st = "done"
    /\ awaited' = awaited \cup {ind}
    /\ YieldProduct(ind, [x \in {} |-> 0], 0)
    /\ UNCHANGED <<attributes_iter, size, consumed, attributes_batch, batches_awt, calls, completed,
                   ind, exc, drain_i>>

\* the consumer's __anext__ resumes the generator inside a batch
GenNextProduct ==
    /\ OnlyBatch
    /\ gpc = "yielded"
    /\ pos < Len(batches_awt[ind].attrs)
    /\ YieldProduct(ind, products_dict, pos)
    /\ UNCHANGED <<attributes_iter, size, consumed, attributes_batch, batches_awt, calls, completed,
                   ind, awaited, exc, drain_i>>

\* the consumer's __anext__ resumes the generator at the end of a batch
GenNextBatch ==
    /\ OnlyBatch
    /\ gpc = "yielded"
    /\ pos = Len(batches_awt[ind].attrs)
    /\ IF ind < NTasks
       THEN gpc' = "await" /\ ind' = ind + 1
       ELSE gpc' = "finished" /\ UNCHANGED ind
    /\ UNCHANGED <<attributes_iter, size, consumed, attributes_batch, batches_awt, calls, completed,
                   pos, products_dict, ninst, out, awaited, exc, drain_i>>

\* "range(ind + 1, len(batches_awt))": where the except block starts to drain
DrainFromSkipsNext(i) == i + 2
DrainFrom(i) == i + 1

\* "batch = await batch_awt" raises the task's exception: into "except Exception"
GenAwaitRaise ==
    /\ OnlyBatch
    /\ gpc = "await"
    /\ batches_awt[ind].st = "failed"
    /\ awaited' = awaited \cup {ind}
    /\ exc' = [kind |-> "task", task |-> ind]
    /\ drain_i' = DrainFrom(ind)
    /\ gpc' = IF DrainFrom(ind) <= NTasks THEN "drain" ELSE "raised"
    /\ UNCHANGED <<attributes_iter, size, consumed, attributes_batch, batches_awt, calls, completed,
                   ind, pos, products_dict, ninst, out>>

\* "await batches_awt[i]" in the except block returns or raises
GenDrain ==
    /\ OnlyBatch
    /\ gpc = "drain"
    /\ batches_awt[drain_i].st \in {"done", "failed"}
    /\ awaited' = awaited \cup {drain_i}
    /\ IF batches_awt[drain_i].st = "failed"
       THEN \* the drained task's exception leaves the except block
            gpc' = "raised" /\ exc' = [kind |-> "task", task |-> drain_i] /\ UNCHANGED drain_i
       ELSE /\ drain_i' = drain_i + 1
            /\ gpc' = IF drain_i + 1 <= NTasks THEN "drain" ELSE "raised"
            /\ UNCHANGED exc
    /\ UNCHANGED <<attributes_iter, size, consumed, attributes_batch, batches_awt, calls, completed,
                   ind, pos, products_dict, ninst, out>>

\* the consumer stops early: aclose() throws GeneratorExit in at the yield, and
\* "except Exception" does not catch it
GenClose ==
    /\ OnlyBatch
    /\ gpc = "yielded"
    /\ gpc' = "closed"
    /\ UNCHANGED <<attributes_iter, size, consumed, attributes_batch, batches_awt, calls, completed,
                   ind, pos, products_dict, ninst, out, awaited, exc, drain_i>>

RECURSIVE Inputs(_)
Inputs(n) ==
    IF n = 0 THEN {<<>>}
    ELSE {Append(s, [n |-> n, id |-> x]) : s \in Inputs(n - 1), x \in Ids \cup {NoId}}

FreshBatch ==
    /\ gpc = "created"
    /\ consumed = 0
    /\ attributes_batch = <<>>
    /\ batches_awt = <<>>
    /\ calls = <<>>
    /\ completed = <<>>
    /\ ind = 0
    /\ pos = 0
    /\ products_dict = [x \in {} |-> 0]
    /\ ninst = 0
    /\ out = <<>>
    /\ awaited = {}
    /\ exc = [kind |-> "none", task |-> 0]
    /\ drain_i = 0

InitBatch ==
    /\ attributes_iter \in UNION {Inputs(n) : n \in 0..MaxLen}
    /\ size \in 1..MaxSize
    /\ FreshBatch

\* ------------------------------------------------------------------------
\* lru_cache_timed
\* _in is func under functools.lru_cache (sync) or asyncstdlib's lru_cache (async),
\* keyed by (time_key, *args): a hit moves the entry to the recent end; a miss
\* calls func and stores its result on return, dropping the least recently used
\* entry over maxsize; a call that raises stores nothing.  The async cache looks
\* the key up when the call starts and stores when the awaited func returns.
\* ------------------------------------------------------------------------

\* "time_key = (time.time() - first_start[0]) // seconds", 1 when seconds is None
TimeKeyConstant(t, t0) == 1
TimeKeyNoFloor(t, t0) == t - t0
TimeKey(t, t0) == IF seconds = 0 THEN 1 ELSE (t - t0) \div seconds

\* "if not len(first_start): first_start.append(time.time())"
FirstStart == IF Len(first_start) = 0 THEN <<now>> ELSE first_start

\* the key _out passes to _in for arg, now
KeyNow(arg) == <<TimeKey(now, FirstStart[1]), arg>>

InCache(key) == \E k \in 1..Len(cache) : cache[k].key = key
Slot(key) == CHOOSE k \in 1..Len(cache) : cache[k].key = key

\* a hit: the entry becomes the most recently used
Touch(key) ==
    LET k == Slot(key) IN
    SubSeq(cache, 1, k - 1) \o SubSeq(cache, k + 1, Len(cache)) \o <<cache[k]>>

\* a returned miss: the result is stored
Stored(key, val) ==
    IF InCache(key)
    THEN [cache EXCEPT ![Slot(key)].val = val]
    ELSE Append(cache, [key |-> key, val |-> val])

\* ... and the least recently used entry dropped when over maxsize
Bounded(c) == IF Len(c) > maxsize THEN Tail(c) ELSE c

\* the value invocation n of func returns, tagged with the call that made it
Value(n, arg) == [n |-> n, arg |-> arg, t |-> now, time_key |-> KeyNow(arg)[1]]
NoValue == [n |-> 0, arg |-> "x", t |-> 0, time_key |-> 0]

\* history kept with each call of _out: live is the set of earlier calls that had
\* returned normally, and whose key the LRU bound had not dropped since, when the
\* call started; during is the set of calls that were awaiting func then; dropped
\* marks a call whose key the LRU bound dropped after its return
Live == {i \in 1..Len(log) : log[i].st = "ok" /\ ~log[i].dropped}

CallRecord(arg, invoked, val, st) ==
    [arg |-> arg, t |-> now, time_key |-> KeyNow(arg)[1], invoked |-> invoked,
     val |-> val, st |-> st, live |-> Live, during |-> {p.call : p \in pending},
     dropped |-> FALSE]

\* the log once storing into c (before the bound is applied) has dropped an entry
MarkDropped(l, c) ==
    IF Len(c) > maxsize
    THEN [i \in 1..Len(l) |->
            IF <<l[i].time_key, l[i].arg>> = c[1].key /\ l[i].st = "ok"
            THEN [l[i] EXCEPT !.dropped = TRUE] ELSE l[i]]
    ELSE l

\* _out(arg) on a hit, sync or async: nothing is awaited
MemoHit(arg) ==
    /\ OnlyMemo
    /\ Len(log) < MaxMemoCalls
    /\ InCache(KeyNow(arg))
    /\ first_start' = FirstStart
    /\ cache' = Touch(KeyNow(arg))
    /\ log' = Append(log, CallRecord(arg, FALSE, cache[Slot(KeyNow(arg))].val, "ok"))
    /\ UNCHANGED <<seconds, maxsize, is_async, ninv, pending>>

\* _out(arg) on a miss, sync: func runs to its return (ok) or raises
MemoMissSync(arg, ok) ==
    /\ OnlyMemo
    /\ ~is_async
    /\ Len(log) < MaxMemoCalls
    /\ ~InCache(KeyNow(arg))
    /\ first_start' = FirstStart
    /\ ninv' = ninv + 1
    /\ LET val == Value(ninv + 1, arg)
           stored == Stored(KeyNow(arg), val) IN
       IF ok
       THEN /\ cache' = Bounded(stored)
            /\ log' = Append(MarkDropped(log, stored), CallRecord(arg, TRUE, val, "ok"))
       ELSE /\ cache' = cache
            /\ log' = Append(log, CallRecord(arg, TRUE, NoValue, "raised"))
    /\ UNCHANGED <<seconds, maxsize, is_async, pending>>

\* _out(arg) on a miss, async: func is invoked and the caller awaits it
MemoMissAsync(arg) ==
    /\ OnlyMemo
    /\ is_async
    /\ Cardinality(pending) < NCallers
    /\ Len(log) < MaxMemoCalls
    /\ ~InCache(KeyNow(arg))
    /\ first_start' = FirstStart
    /\ ninv' = ninv + 1
    /\ pending' = pending \cup {[key |-> KeyNow(arg), val |-> Value(ninv + 1, arg),
                                 call |-> Len(log) + 1]}
    /\ log' = Append(log, CallRecord(arg, TRUE, NoValue, "pending"))
    /\ UNCHANGED <<seconds, maxsize, is_async, cache>>

\* the func awaited by call p returns (ok) or raises
MemoReturnAsync(p, ok) ==
    /\ OnlyMemo
    /\ p \in pending
    /\ pending' = pending \ {p}
    /\ LET stored == Stored(p.key, p.val) IN
       IF ok
       THEN /\ cache' = Bounded(stored)
            /\ log' = [MarkDropped(log, stored) EXCEPT ![p.call].st = "ok",
                                                       ![p.call].val = p.val]
       ELSE /\ cache' = cache
            /\ log' = [log EXCEPT ![p.call].st = "raised"]
    /\ UNCHANGED <<seconds, maxsize, is_async, first_start, ninv>>

FreshMemo ==
    /\ first_start = <<>>
    /\ cache = <<>>
    /\ ninv = 0
    /\ pending = {}
    /\ log = <<>>

InitMemo ==
    /\ seconds \in 1..MaxSeconds
    /\ maxsize \in 1..MaxCacheSize
    /\ is_async \in BOOLEAN
    /\ FreshMemo

\* ------------------------------------------------------------------------
\* api.login, webapi.login, check_response
\* A response is [status_code, json, has_status, status]: json tells whether
\* response.json() decodes, has_status whether the decoded body has a 'status'
\* key, status is that key's value.
\* ------------------------------------------------------------------------

\* httpx.codes.OK, CREATED, NO_CONTENT, BAD_REQUEST, UNAUTHORIZED
OK == 200
CREATED == 201
NO_CONTENT == 204
BAD_REQUEST == 400
UNAUTHORIZED == 401

\* _LOGIN_FAILURE_MINTIME, 3 hours: the unit of the clock of the login calls
LOGIN_FAILURE_MINTIME == 1

\* LOGIN.BAD_CREDENTIALS, LOGIN.TOTP_NEEDED
BAD_CREDENTIALS == 3
TOTP_NEEDED == 6

StatusCodes == {OK, CREATED, NO_CONTENT, BAD_REQUEST, UNAUTHORIZED}
Bodies ==
    {[json |-> FALSE, has_status |-> FALSE, status |-> 0],
     [json |-> TRUE, has_status |-> FALSE, status |-> 0]}
    \cup {[json |-> TRUE, has_status |-> TRUE, status |-> s] :
            s \in {0, BAD_CREDENTIALS, TOTP_NEEDED}}
Responses ==
    {[status_code |-> c, json |-> b.json, has_status |-> b.has_status, status |-> b.status] :
        c \in StatusCodes, b \in Bodies}

\* check_response: the name of what it raises, "ok" when it returns
CheckResponseAny2xx(response) ==
    IF response.status_code \in 400..499 /\ ~response.json
    THEN "JSONDecodeError"
    ELSE IF /\ response.status_code \in 400..499
            /\ response.has_status
            /\ response.status = BAD_CREDENTIALS
    THEN "BadCredentialsError"
    ELSE IF response.status_code \notin 200..299
    THEN "ResponseError"
    ELSE "ok"
check_response(response) ==
    IF response.status_code = BAD_REQUEST /\ ~response.json
    THEN "JSONDecodeError"
    ELSE IF /\ response.status_code = BAD_REQUEST
            /\ response.has_status
            /\ response.status = BAD_CREDENTIALS
    THEN "BadCredentialsError"
    ELSE IF response.status_code \notin {OK, CREATED}
    THEN "ResponseError"
    ELSE "ok"

LTasks == 1..NLoginTasks

\* Credentials, with str(None) for an unset field
CredentialsSet ==
    {[username |-> "u", password |-> "p", totp_secret |-> s, one_time_password |-> "None"] :
        s \in {"None", "s"}}

\* Credentials.__hash__ hashes this string, and __eq__ compares the hashes
Hashed(c) ==
    "username:" \o c.username \o "|password:" \o c.password
    \o "|totp_secret:" \o c.totp_secret
    \o "|one_time_password:" \o c.one_time_password

\* "credentials in _LOGIN_FAILURE_HASH"
NeverInFailureHash(c) == FALSE
InFailureHash(c) == Hashed(c) \in login_failure_hash

\* the login call of task t ends with outcome, an exception's name or "ok"
Ended(t, outcome) ==
    /\ attempts' = [attempts EXCEPT ![lidx[t]].outcome = outcome]
    /\ lpc' = [lpc EXCEPT ![t] = "idle"]

\* api.login up to its first suspension: refused on the spot, or webapi.login is
\* called and awaits its post
LoginBegin(t, c, safeguard_incorrect_credentials) ==
    /\ OnlyLogin
    /\ lpc[t] = "idle"
    /\ Len(attempts) < MaxLogins
    /\ LET refused == safeguard_incorrect_credentials /\ InFailureHash(c) IN
       /\ attempts' = Append(attempts,
            [cred |-> c, safeguard |-> safeguard_incorrect_credentials, t |-> now,
             forwarded |-> ~refused, last_fail |-> fail_time[Hashed(c)],
             verdict |-> last_verdict[Hashed(c)],
             prior_bad |-> {i \in 1..Len(attempts) :
                                /\ Hashed(attempts[i].cred) = Hashed(c)
                                /\ attempts[i].outcome = "BadCredentialsError"},
             config |-> FALSE,
             outcome |-> IF refused THEN "BadCredentialsError" ELSE "pending"])
       /\ lpc' = [lpc EXCEPT ![t] = IF refused THEN "idle" ELSE "post"]
    /\ lcred' = [lcred EXCEPT ![t] = c]
    /\ lidx' = [lidx EXCEPT ![t] = Len(attempts) + 1]
    /\ UNCHANGED <<login_failure_hash, fail_time, last_verdict>>

\* api.login's handler of what webapi.login raised: a BadCredentialsError puts the
\* credentials in _LOGIN_FAILURE_HASH, and every exception propagates
WebLoginRaised(t, name) ==
    /\ Ended(t, name)
    /\ IF name = "BadCredentialsError"
       THEN /\ login_failure_hash' = login_failure_hash \cup {Hashed(lcred[t])}
            /\ fail_time' = [fail_time EXCEPT ![Hashed(lcred[t])] = now]
            /\ last_verdict' = [last_verdict EXCEPT ![Hashed(lcred[t])] = "bad"]
       ELSE UNCHANGED <<login_failure_hash, fail_time, last_verdict>>

\* webapi.login from check_response(response) on: what it raises, "ok" when the
\* session cookie is there and it returns
CheckedOutcome(response, jsessionid) ==
    LET r == check_response(response) IN
    IF r # "ok" THEN r
    ELSE IF ~jsessionid THEN "AssertionError"
    ELSE "ok"

\* webapi.login once its login post has returned: response.json()['status'] is
\* read, and "totp" stands for the one time password being posted next
PostOutcome(credentials, response, jsessionid) ==
    IF ~response.json THEN "JSONDecodeError"
    ELSE IF ~response.has_status THEN "KeyError"
    ELSE IF response.status = TOTP_NEEDED
    THEN IF credentials.totp_secret = "None" /\ credentials.one_time_password = "None"
         THEN "AssertionError"
         ELSE "totp"
    ELSE CheckedOutcome(response, jsessionid)

\* webapi.login once the one time password post has returned
TotpOutcome(response, jsessionid) ==
    IF ~response.json THEN "JSONDecodeError"
    ELSE CheckedOutcome(response, jsessionid)

\* webapi.login returned or raised outcome to api.login, which goes on to
\* webapi.get_config or handles the exception
WebLoginEnded(t, outcome) ==
    IF outcome = "ok"
    THEN /\ lpc' = [lpc EXCEPT ![t] = "config"]
         /\ attempts' = [attempts EXCEPT ![lidx[t]].config = TRUE]
         /\ last_verdict' = [last_verdict EXCEPT ![Hashed(lcred[t])] = "ok"]
         /\ UNCHANGED <<login_failure_hash, fail_time>>
    ELSE WebLoginRaised(t, outcome)

\* the login post returns
LoginResponse(t, response, jsessionid) ==
    LET outcome == PostOutcome(lcred[t], response, jsessionid) IN
    /\ OnlyLogin
    /\ lpc[t] = "post"
    /\ IF outcome = "totp"
       THEN /\ lpc' = [lpc EXCEPT ![t] = "totp"]
            /\ UNCHANGED <<login_failure_hash, attempts, fail_time, last_verdict>>
       ELSE WebLoginEnded(t, outcome)
    /\ UNCHANGED <<lcred, lidx>>

\* the one time password post returns
TotpResponse(t, response, jsessionid) ==
    /\ OnlyLogin
    /\ lpc[t] = "totp"
    /\ WebLoginEnded(t, TotpOutcome(response, jsessionid))
    /\ UNCHANGED <<lcred, lidx>>

\* webapi.get_config's get returns: check_response(res), then res.json()['data']
ConfigResponse(t, response) ==
    LET r == check_response(response) IN
    /\ OnlyLogin
    /\ lpc[t] = "config"
    /\ IF r # "ok"
       THEN Ended(t, r)
       ELSE IF ~response.json
       THEN Ended(t, "JSONDecodeError")
       ELSE /\ lpc' = [lpc EXCEPT ![t] = "rest"]
            /\ UNCHANGED attempts
    /\ UNCHANGED <<login_failure_hash, lcred, lidx, fail_time, last_verdict>>

\* webapi.get_client_info and get_dictionary return or raise, and login returns
RestReturn(t, ok) ==
    /\ OnlyLogin
    /\ lpc[t] = "rest"
    /\ Ended(t, IF ok THEN "ok" ELSE "ResponseError")
    /\ UNCHANGED <<login_failure_hash, lcred, lidx, fail_time, last_verdict>>

\* check_response is called on the response
CheckResponse ==
    /\ OnlyResponse
    /\ raised = "unchecked"
    /\ raised' = check_response(r_response)
    /\ UNCHANGED <<r_response, r_credentials, r_jsessionid, login_raised>>

\* webapi.login is called and the endpoint answers its login post with the response
WebLoginPost ==
    /\ OnlyResponse
    /\ login_raised = "uncalled"
    /\ login_raised' = PostOutcome(r_credentials, r_response, r_jsessionid)
    /\ UNCHANGED <<r_response, r_credentials, r_jsessionid, raised>>

\* ... and its one time password post with another
WebLoginTotp(response) ==
    /\ OnlyResponse
    /\ login_raised = "totp"
    /\ r_response' = response
    /\ raised' = "unchecked"
    /\ login_raised' = TotpOutcome(response, r_jsessionid)
    /\ UNCHANGED <<r_credentials, r_jsessionid>>

FreshResponse ==
    /\ raised = "unchecked"
    /\ login_raised = "uncalled"

InitResponse ==
    /\ r_response \in Responses
    /\ r_credentials \in CredentialsSet
    /\ r_jsessionid \in BOOLEAN
    /\ FreshResponse

QuietResponse ==
    /\ r_response = CHOOSE r \in Responses : TRUE
    /\ r_credentials = CHOOSE c \in CredentialsSet : TRUE
    /\ r_jsessionid = TRUE
    /\ FreshResponse

InitLogin ==
    /\ login_failure_hash = {}
    /\ lpc = [t \in LTasks |-> "idle"]
    /\ lcred = [t \in LTasks |-> CHOOSE c \in CredentialsSet : TRUE]
    /\ lidx = [t \in LTasks |-> 0]
    /\ attempts = <<>>
    /\ fail_time = [h \in {Hashed(c) : c \in CredentialsSet} |-> -1]
    /\ last_verdict = [h \in {Hashed(c) : c \in CredentialsSet} |-> "none"]

\* ------------------------------------------------------------------------
\* api.search_product
\* _search_one(offset) is one page fetch: it returns (products, n_unfiltered,
\* total) or raises.  A product is [id, page, k]: the k-th product of the page,
\* page 0 being the offset 0 fetch and page j the j-th fetch handed to gather.
\* ------------------------------------------------------------------------

\* range(start, stop, step)
RECURSIVE RangeUpToStop(_, _, _)
RangeUpToStop(start, stop, step) ==
    IF start > stop THEN <<>> ELSE <<start>> \o RangeUpToStop(start + step, stop, step)
RECURSIVE Range(_, _, _)
Range(start, stop, step) ==
    IF start >= stop THEN <<>> ELSE <<start>> \o Range(start + step, stop, step)

\* the products _search_one can return for a page of at most n unfiltered items:
\* the filter keeps any of them, and each has any id
PageIds(n) == UNION {[1..m -> Ids] : m \in 0..n}
Prods(page, ids) == [k \in 1..Len(ids) |-> [id |-> ids[k], page |-> page, k |-> k]]

\* unique_everseen(products, lambda p: p.info.id)
RECURSIVE unique_everseen(_)
unique_everseen(prods) ==
    IF prods = <<>> THEN <<>>
    ELSE LET front == unique_everseen(SubSeq(prods, 1, Len(prods) - 1))
             last == prods[Len(prods)] IN
         IF \E k \in 1..Len(front) : front[k].id = last.id
         THEN front ELSE Append(front, last)

\* "for prods, _, _ in answers: products += prods": gather's answers are in the
\* order of its arguments, whatever order (completed) the fetches completed in
RECURSIVE MergedAsCompleted(_, _, _)
MergedAsCompleted(prods, ps, order) ==
    IF order = <<>> THEN prods
    ELSE MergedAsCompleted(prods \o ps[Head(order)].prods, ps, Tail(order))
RECURSIVE Merged(_, _, _)
Merged(prods, ps, order) ==
    IF ps = <<>> THEN prods
    ELSE Merged(prods \o Head(ps).prods, Tail(ps), order)

\* the product_type_id arguments of search_product: None or a PRODUCT.TYPEID member
NoneType == 0
TypeArgs == {NoneType, STOCK, CURRENCY}

\* the product_type_id of a _search_one call made by search_product: the call
\* passes none, so it is the default of _search_one's parameter, for the
\* endpoint's productTypeId and for __custom_filter alike
SearchOneType(product_type_id) == STOCK

\* search_product is called: the offset 0 fetch is issued and awaited
SearchStart ==
    /\ OnlySearch
    /\ spc = "start"
    /\ spc' = "first"
    /\ fetches' = <<0>>
    /\ sent_types' = <<SearchOneType(s_product_type_id)>>
    /\ UNCHANGED <<total, n_unfiltered, products, pages, finished, answer, s_exc,
                   s_product_type_id>>

\* the offset 0 fetch returns: the list is returned at once, or the remaining
\* fetches are handed to gather
FirstReturn(n, tot, ids) ==
    /\ OnlySearch
    /\ spc = "first"
    /\ n_unfiltered' = n
    /\ total' = tot
    /\ products' = Prods(0, ids)
    /\ finished' = Append(finished, 0)
    /\ IF n < tot
       THEN /\ pages' = [j \in 1..Len(Range(n, tot, limit)) |->
                            [offset |-> Range(n, tot, limit)[j], st |-> "new", prods |-> <<>>]]
            /\ spc' = "gather"
            /\ UNCHANGED answer
       ELSE /\ answer' = unique_everseen(Prods(0, ids))
            /\ spc' = "returned"
            /\ UNCHANGED pages
    /\ UNCHANGED <<fetches, s_exc,
                   s_product_type_id, sent_types>>

\* the offset 0 fetch raises
FirstRaise ==
    /\ OnlySearch
    /\ spc = "first"
    /\ spc' = "raised"
    /\ s_exc' = 0
    /\ UNCHANGED <<total, n_unfiltered, products, pages, fetches, finished, answer,
                   s_product_type_id, sent_types>>

\* gather's j-th task may run: it was created and has not started
CanIssueInTurn(j) == pages[j].st = "new" /\ \A i \in 1..(j - 1) : pages[i].st \in {"done", "failed"}
CanIssue(j) == pages[j].st = "new"

\* gather's j-th task starts and issues its fetch
PageStart(j) ==
    /\ OnlySearch
    /\ CanIssue(j)
    /\ pages' = [pages EXCEPT ![j].st = "flight"]
    /\ fetches' = Append(fetches, pages[j].offset)
    /\ sent_types' = Append(sent_types, SearchOneType(s_product_type_id))
    /\ UNCHANGED <<spc, total, n_unfiltered, products, finished, answer, s_exc,
                   s_product_type_id>>

\* the j-th fetch returns
PageReturn(j, ids) ==
    /\ OnlySearch
    /\ pages[j].st = "flight"
    /\ pages' = [pages EXCEPT ![j].st = "done", ![j].prods = Prods(j, ids)]
    /\ finished' = Append(finished, j)
    /\ UNCHANGED <<spc, total, n_unfiltered, products, fetches, answer, s_exc,
                   s_product_type_id, sent_types>>

\* what becomes of search_product, awaiting gather, when a task of gather raises:
\* gather hands its awaiter the first exception, the other tasks run on
ExceptionSwallowed(s) == s
ExceptionPropagates(s) == IF s = "gather" THEN "raised" ELSE s

\* the j-th fetch raises
PageRaise(j) ==
    /\ OnlySearch
    /\ pages[j].st = "flight"
    /\ pages' = [pages EXCEPT ![j].st = "failed"]
    /\ finished' = Append(finished, j)
    /\ spc' = ExceptionPropagates(spc)
    /\ s_exc' = IF spc = "gather" THEN pages[j].offset ELSE s_exc
    /\ UNCHANGED <<total, n_unfiltered, products, fetches, answer,
                   s_product_type_id, sent_types>>

\* every task of gather has returned: the pages are merged and the list returned
GatherReturn ==
    /\ OnlySearch
    /\ spc = "gather"
    /\ \A j \in 1..Len(pages) : pages[j].st = "done"
    /\ products' = Merged(products, pages, SubSeq(finished, 2, Len(finished)))
    /\ answer' = unique_everseen(products')
    /\ spc' = "returned"
    /\ UNCHANGED <<total, n_unfiltered, pages, fetches, finished, s_exc,
                   s_product_type_id, sent_types>>

FreshSearch ==
    /\ spc = "start"
    /\ total = 0
    /\ n_unfiltered = 0
    /\ products = <<>>
    /\ pages = <<>>
    /\ fetches = <<>>
    /\ finished = <<>>
    /\ answer = <<>>
    /\ s_exc = -1
    /\ sent_types = <<>>

InitSearch == s_product_type_id \in TypeArgs /\ FreshSearch

QuietSearch == s_product_type_id = STOCK /\ FreshSearch

\* ------------------------------------------------------------------------
\* ProductFactory.__products_from_attrs: the class of each product
\* ------------------------------------------------------------------------

\* entity-type codes the endpoint can send: the members and two other integers
Codes == TYPEID \cup {0, 99}

\* "try: product_info['product_type_id'] = PRODUCT.TYPEID(...) except ValueError:
\* pass": a member's value is replaced by the member, any other integer stays
TypeIdOf(code) == [value |-> code, member |-> code \in TYPEID]

\* "{CURRENCY: Currency, STOCK: Stock}.get(product_type_id, ProductGeneric)";
\* an IntEnum member hashes and compares as its value
InstClsNoDefault(product_type_id) ==
    IF product_type_id.value = CURRENCY THEN "Currency"
    ELSE IF product_type_id.value = STOCK THEN "Stock"
    ELSE "KeyError"
InstCls(product_type_id) ==
    IF product_type_id.value = CURRENCY THEN "Currency"
    ELSE IF product_type_id.value = STOCK THEN "Stock"
    ELSE "ProductGeneric"

\* one turn of "for product_base in products_base_iter", up to "yield instance"
\* or to the KeyError of "products_info[product_id]" on an id the payload lacks
FromAttrsStep ==
    /\ OnlyFactory
    /\ f_raised = "none"
    /\ f_taken < Len(f_base_iter)
    /\ LET product_id == f_base_iter[f_taken + 1] IN
       /\ f_taken' = f_taken + 1
       /\ IF product_id \in DOMAIN f_products_dict
          THEN /\ f_yielded' = Append(f_yielded,
                                      [f_products_dict[product_id] EXCEPT !.reused = TRUE])
               /\ UNCHANGED <<f_products_dict, f_raised>>
          ELSE IF product_id \notin DOMAIN f_products_info
          THEN /\ f_raised' = "KeyError"
               /\ UNCHANGED <<f_products_dict, f_yielded>>
          ELSE LET product_type_id == TypeIdOf(f_products_info[product_id])
                   instance == [id |-> product_id,
                                cls |-> InstCls(product_type_id),
                                code |-> product_type_id.value,
                                member |-> product_type_id.member,
                                reused |-> FALSE] IN
               /\ f_products_dict' = (product_id :> instance) @@ f_products_dict
               /\ f_yielded' = Append(f_yielded, instance)
               /\ UNCHANGED f_raised
    /\ UNCHANGED <<f_products_info, f_base_iter>>

RECURSIVE BaseIters(_)
BaseIters(n) ==
    IF n = 0 THEN {<<>>}
    ELSE BaseIters(n - 1) \cup {Append(b, x) : b \in BaseIters(n - 1), x \in Ids}

FreshFactory ==
    /\ f_products_dict = [x \in {} |-> 0]
    /\ f_taken = 0
    /\ f_yielded = <<>>
    /\ f_raised = "none"

InitFactory ==
    /\ f_products_info \in UNION {[S -> Codes] : S \in SUBSET Ids}
    /\ f_base_iter \in BaseIters(MaxLen)
    /\ FreshFactory

QuietFactory ==
    /\ f_products_info = [x \in {} |-> 0]
    /\ f_base_iter = <<>>
    /\ FreshFactory

\* ------------------------------------------------------------------------
\* Specifications
\* ------------------------------------------------------------------------

FreshThrottle ==
    /\ requests_times = <<>>
    /\ tpc = [c \in TTasks |-> "idle"]
    /\ wake_at = [c \in TTasks |-> 0]
    /\ forwarded = <<>>
    /\ slept = [c \in TTasks |-> FALSE]
    /\ naps = [c \in TTasks |-> 0]
    /\ passes = <<>>
    /\ updates = 0

InitThrottle ==
    /\ max_requests \in -1..MaxRequests
    /\ period_s \in 1..MaxPeriod
    /\ FreshThrottle

QuietThrottle == max_requests = 0 /\ period_s = 1 /\ FreshThrottle

QuietBatch ==
    /\ attributes_iter = <<>>
    /\ size = 1
    /\ FreshBatch

QuietMemo ==
    /\ seconds = 1
    /\ maxsize = 1
    /\ is_async = FALSE
    /\ FreshMemo

QuietLogin == InitLogin

\* concurrent callers of the throttled methods of one ThrottlingClient
InitT == now = 0 /\ InitThrottle /\ InitClient /\ QuietBatch /\ QuietMemo /\ QuietLogin /\ QuietResponse /\ QuietSearch /\ QuietFactory

NextThrottle ==
    \/ \E c \in TTasks : ThrottledCall(c)
    \/ \E c \in TTasks : ThrottleWake(c)
    \/ \E c \in TTasks : MethodReturn(c)
    \/ Tick(MaxTime)

SpecThrottle == InitT /\ [][NextThrottle]_vars

\* ... whose budget and period update_throttling changes meanwhile
NextThrottleUpdate ==
    \/ NextThrottle
    \/ \E m \in -1..MaxRequests, p \in 1..MaxPeriod : update_throttling(m, p)

SpecThrottleUpdate == InitT /\ [][NextThrottleUpdate]_vars

\* ... with calls made only while the clock leaves room for their admission, and
\* the event loop resuming every sleeper that is due before the clock moves on
RoomLeft ==
    now + (Cardinality({d \in TTasks : tpc[d] = "sleep"}) + 1) * (period_s + 1) <= MaxTime

PromptTick ==
    /\ \A c \in TTasks : tpc[c] = "sleep" => now < wake_at[c]
    /\ Tick(MaxTime)

NextThrottleLive ==
    \/ \E c \in TTasks : RoomLeft /\ ThrottledCall(c)
    \/ \E c \in TTasks : ThrottleWake(c)
    \/ \E c \in TTasks : MethodReturn(c)
    \/ PromptTick

SpecThrottleLive ==
    /\ InitT
    /\ [][NextThrottleLive]_vars
    /\ WF_vars(PromptTick)
    /\ \A c \in TTasks : WF_vars(ThrottleWake(c))

\* concurrent "async with" blocks on one ThrottlingClient
InitC == now = 0 /\ QuietThrottle /\ InitClient /\ QuietBatch /\ QuietMemo /\ QuietLogin /\ QuietResponse /\ QuietSearch /\ QuietFactory

NextClient ==
    \/ \E t \in CTasks : EnterBegin(t)
    \/ \E t \in CTasks : EnterFinish(t)
    \/ \E t \in CTasks : ClientSend(t)
    \/ \E t \in CTasks : ExitBegin(t)
    \/ \E t \in CTasks : ExitFinish(t)

SpecClient == InitC /\ [][NextClient]_vars

\* one init_batch generator, its chunk tasks and its consumer
InitB == now = 0 /\ QuietThrottle /\ InitClient /\ InitBatch /\ QuietMemo /\ QuietLogin /\ QuietResponse /\ QuietSearch /\ QuietFactory

NextBatch ==
    \/ GenStart
    \/ ChunkStep
    \/ ChunkEnd
    \/ \E i \in 1..NTasks : TaskStart(i)
    \/ \E i \in 1..NTasks : TaskReturn(i)
    \/ \E i \in 1..NTasks : TaskRaise(i)
    \/ GenAwaitReturn
    \/ GenNextProduct
    \/ GenNextBatch
    \/ GenAwaitRaise
    \/ GenDrain
    \/ GenClose

SpecBatch == InitB /\ [][NextBatch]_vars

\* one function wrapped by lru_cache_timed and its callers
InitM == now = 0 /\ QuietThrottle /\ InitClient /\ QuietBatch /\ InitMemo /\ QuietLogin /\ QuietResponse /\ QuietSearch /\ QuietFactory

NextMemo ==
    \/ \E arg \in Args : MemoHit(arg)
    \/ \E arg \in Args, ok \in BOOLEAN : MemoMissSync(arg, ok)
    \/ \E arg \in Args : MemoMissAsync(arg)
    \/ \E p \in pending, ok \in BOOLEAN : MemoReturnAsync(p, ok)
    \/ Tick(MaxMemoTime)

SpecMemo == InitM /\ [][NextMemo]_vars

\* concurrent api.login calls in one process
InitL == now = 0 /\ QuietThrottle /\ InitClient /\ QuietBatch /\ QuietMemo /\ InitLogin /\ QuietResponse /\ QuietSearch /\ QuietFactory

NextLogin ==
    \/ \E t \in LTasks, c \in CredentialsSet, safeguard \in BOOLEAN : LoginBegin(t, c, safeguard)
    \/ \E t \in LTasks, r \in Responses, j \in BOOLEAN : LoginResponse(t, r, j)
    \/ \E t \in LTasks, r \in Responses, j \in BOOLEAN : TotpResponse(t, r, j)
    \/ \E t \in LTasks, r \in Responses : ConfigResponse(t, r)
    \/ \E t \in LTasks, ok \in BOOLEAN : RestReturn(t, ok)
    \/ Tick(MaxLoginTime)

SpecLogin == InitL /\ [][NextLogin]_vars

\* check_response and webapi.login on the endpoint's responses
InitR == now = 0 /\ QuietThrottle /\ InitClient /\ QuietBatch /\ QuietMemo /\ QuietLogin /\ InitResponse /\ QuietSearch /\ QuietFactory

NextResponse ==
    \/ CheckResponse
    \/ WebLoginPost
    \/ \E r \in Responses : WebLoginTotp(r)

SpecResponse == InitR /\ [][NextResponse]_vars

\* one search_product call and its page fetches
InitS ==
    now = 0 /\ QuietThrottle /\ InitClient /\ QuietBatch /\ QuietMemo /\ QuietLogin
    /\ QuietResponse /\ InitSearch /\ QuietFactory

NextSearch ==
    \/ SearchStart
    \/ \E n \in 0..limit, tot \in 0..MaxTotal : \E ids \in PageIds(n) : FirstReturn(n, tot, ids)
    \/ FirstRaise
    \/ \E j \in 1..Len(pages) : PageStart(j)
    \/ \E j \in 1..Len(pages) : \E ids \in PageIds(limit) : PageReturn(j, ids)
    \/ \E j \in 1..Len(pages) : PageRaise(j)
    \/ GatherReturn

SpecSearch == InitS /\ [][NextSearch]_vars

\* __products_from_attrs on one payload of resolved products
InitF ==
    now = 0 /\ QuietThrottle /\ InitClient /\ QuietBatch /\ QuietMemo /\ QuietLogin
    /\ QuietResponse /\ QuietSearch /\ InitFactory

NextFactory == FromAttrsStep

SpecFactory == InitF /\ [][NextFactory]_vars

\* ------------------------------------------------------------------------
\* Properties
\* ------------------------------------------------------------------------

\* C1: with a constant positive max_requests, no window of length period_s
\* (closed at both ends) holds more than max_requests forwarded calls, under
\* any interleaving of the callers
RateLimitHolds ==
    max_requests > 0 =>
        \A a \in 0..MaxTime :
            Cardinality({i \in 1..Len(forwarded) :
                            a <= forwarded[i] /\ forwarded[i] <= a + period_s})
                <= max_requests

\* the budget was spent and a caller that had to sleep was then forwarded
RateLimitBinds ==
    /\ max_requests > 0
    /\ Len(forwarded) > max_requests
    /\ \E c \in TTasks : slept[c] /\ tpc[c] = "send"

\* C2: the underlying client is open whenever the open-count is positive, and
\* every task between its acquire and its release finds an open client to send on
SharedHandleOpen ==
    LET open == client_open # 0 /\ hstate[client_open] = "opened" IN
    /\ count_open > 0 => open
    /\ \A t \in CTasks : cpc[t] = "in" => open

\* the chunk (and so the task) the k-th input record belongs to
ChunkOf(k) == ((k - 1) \div size) + 1

\* C3: the k-th product yielded is the one resolved for the id of the k-th input
\* record, by the call of that record's chunk, whatever order the chunk tasks
\* complete in; a generator consumed to its end has yielded one per record
OrderPreserved ==
    /\ Len(out) <= Len(attributes_iter)
    /\ \A k \in 1..Len(out) :
          /\ out[k].info.id = attributes_iter[k].id
          /\ calls[out[k].info.call].task = ChunkOf(k)
    /\ gpc = "finished" => Len(out) = Len(attributes_iter)

\* three chunks of one record each, completed last to first, consumed to the end
OrderedDespiteCompletion ==
    /\ gpc = "finished"
    /\ size = 1
    /\ Len(out) = 3
    /\ completed = <<3, 2, 1>>

CeilDiv(n, d) == (n + d - 1) \div d

\* the ids of the input records of chunk c
ChunkIds(c) ==
    {attributes_iter[k].id : k \in {j \in 1..Len(attributes_iter) : ChunkOf(j) = c}}

\* C4: at most one get_products_info call per chunk, its id list holding every
\* distinct id of the chunk exactly once; a generator consumed to its end has
\* issued exactly ceil(n / size) calls, none for an empty input
CallVolume ==
    /\ \A c \in 1..Len(calls) :
          /\ \A d \in 1..Len(calls) : calls[d].task = calls[c].task => d = c
          /\ \A x, y \in 1..Len(calls[c].ids) :
                calls[c].ids[x] = calls[c].ids[y] => x = y
          /\ {calls[c].ids[x] : x \in 1..Len(calls[c].ids)} = ChunkIds(calls[c].task)
    /\ gpc = "finished" =>
          /\ Len(calls) = CeilDiv(Len(attributes_iter), size)
          /\ Len(attributes_iter) = 0 => out = <<>>

\* two chunks, one of them with a repeated id, consumed to the end
DedupedCallIssued ==
    /\ gpc = "finished"
    /\ Len(calls) = 2
    /\ \E c \in 1..Len(calls) : Len(calls[c].ids) < Len(batches_awt[calls[c].task].attrs)

\* C5: records of one chunk with the same id yield one and the same instance;
\* records with different ids yield distinct instances
DuplicatesShareInstance ==
    \A j, k \in 1..Len(out) :
        /\ (ChunkOf(j) = ChunkOf(k) /\ attributes_iter[j].id = attributes_iter[k].id)
              => out[j] = out[k]
        /\ attributes_iter[j].id # attributes_iter[k].id => out[j].inst # out[k].inst

\* ids x, x, y: the first two products are one instance, the third another
SharedThenDistinct ==
    /\ Len(out) = 3
    /\ ChunkOf(1) = ChunkOf(2)
    /\ out[1].inst = out[2].inst
    /\ out[3].inst # out[1].inst

FailedTasks == {i \in 1..NTasks : batches_awt[i].st = "failed"}

\* C6: when the resolution of one chunk raises, the exception reaches the
\* consumer only after every chunk task, before and after the failing one, has
\* been awaited
DrainOnFailure ==
    (gpc = "raised" /\ exc.kind = "task" /\ Cardinality(FailedTasks) = 1)
        => awaited = 1..NTasks

\* the second of three chunks failed and the exception has surfaced
SecondOfThreeFailed ==
    /\ gpc = "raised"
    /\ NTasks = 3
    /\ FailedTasks = {2}
    /\ exc = [kind |-> "task", task |-> 2]
    /\ awaited = {1, 2, 3}

\* C7: a generator closed early has awaited every chunk task before it finishes
EarlyStopDrains == gpc = "closed" => awaited = 1..NTasks

\* floor((now - t0) / W): the time bucket of a call made at t
Bucket(t) == (t - first_start[1]) \div seconds

NoStaleValue ==
    \A j \in 1..Len(log) :
        log[j].st = "ok" =>
            /\ log[j].val.arg = log[j].arg
            /\ Bucket(log[j].val.t) = Bucket(log[j].t)
            /\ log[j].t - log[j].val.t > seconds => log[j].invoked
            /\ ~log[j].invoked => log[j].t - log[j].val.t < seconds

\* a call re-invoked func while the cache still held the value of an earlier
\* bucket for its argument, produced more than seconds before
ReinvokedPastBucket ==
    \E j \in 1..Len(log) : \E k \in 1..Len(cache) :
        /\ log[j].st = "ok"
        /\ log[j].invoked
        /\ cache[k].key[2] = log[j].arg
        /\ cache[k].key[1] < log[j].time_key
        /\ log[j].t - cache[k].val.t > seconds

\* C10: two calls of an async func with equal arguments in the same bucket invoke
\* it at most once, when the second starts after the first returned and also
\* when it starts while the first is still awaiting func
AsyncInvokedOnce ==
    is_async =>
        \A j \in 1..Len(log) : \A i \in log[j].live \cup log[j].during :
            (log[i].arg = log[j].arg /\ Bucket(log[i].t) = Bucket(log[j].t))
                => ~log[j].invoked

LockoutExpires ==
    \A j \in 1..Len(attempts) :
        (/\ attempts[j].safeguard
         /\ attempts[j].last_fail >= 0
         /\ attempts[j].t - attempts[j].last_fail > LOGIN_FAILURE_MINTIME)
            => attempts[j].forwarded

\* C13: the error of a call refused because of the lockout has another name than
\* the error of a call whose credentials the server rejected
LockoutErrorDistinct ==
    \A i, j \in 1..Len(attempts) :
        (/\ ~attempts[i].forwarded
         /\ attempts[j].forwarded
         /\ ~attempts[j].config
         /\ attempts[j].outcome = "BadCredentialsError")
            => attempts[i].outcome # attempts[j].outcome

\* the response is a 4xx / a 400 whose body carries the bad credentials status
BadPayload4xx ==
    /\ r_response.status_code \in 400..499
    /\ r_response.has_status
    /\ r_response.status = BAD_CREDENTIALS
BadPayload400 == BadPayload4xx /\ r_response.status_code = BAD_REQUEST

RemainingIssuedTogether ==
    /\ Len(fetches) > 1 => (Len(finished) > 0 /\ finished[1] = 0)
    /\ spc = "gather" =>
            \A j \in 1..Len(pages) : pages[j].st = "new" => ENABLED PageStart(j)

\* two of the remaining fetches are in flight at the same time
TwoPagesInFlight ==
    \E i, j \in 1..Len(pages) : i < j /\ pages[i].st = "flight" /\ pages[j].st = "flight"

\* the products of all the pages fetched
AllFetched ==
    {products[i] : i \in 1..Len(products)}
    \cup UNION {{pages[j].prods[k] : k \in 1..Len(pages[j].prods)} : j \in 1..Len(pages)}

\* p comes before q in "first page, then the remaining pages by ascending offset"
Before(p, q) == p.page < q.page \/ (p.page = q.page /\ p.k < q.k)

\* C16: the returned list holds no two products with the same id, holds for each
\* id fetched the first product with it, and is ordered first page first, then
\* the remaining pages by ascending offset, whatever order the fetches completed in
MergedInOffsetOrder ==
    spc = "returned" =>
        /\ \A a, b \in 1..Len(answer) : answer[a].id = answer[b].id => a = b
        /\ \A a \in 1..Len(answer) : answer[a] \in AllFetched
        /\ \A p \in AllFetched : \E a \in 1..Len(answer) :
                /\ answer[a].id = p.id
                /\ answer[a] = p \/ Before(answer[a], p)
        /\ \A a, b \in 1..Len(answer) : a < b => Before(answer[a], answer[b])

\* the later page completed first, and a product of the later page was dropped
\* for one of the first page with the same id
MergedDespiteCompletion ==
    /\ spc = "returned"
    /\ Len(finished) = 3
    /\ finished[2] = 2
    /\ \E k \in 1..Len(pages[2].prods) :
            /\ \E i \in 1..Len(products) :
                    products[i].page = 0 /\ products[i].id = pages[2].prods[k].id
            /\ \A a \in 1..Len(answer) : answer[a] # pages[2].prods[k]

\* the remaining fetch that failed first
FirstFailed ==
    LET failed == {i \in 1..Len(finished) :
                      finished[i] > 0 /\ pages[finished[i]].st = "failed"} IN
    finished[CHOOSE i \in failed : \A h \in failed : i <= h]

\* C17: as soon as a fetch has failed search_product has raised, the exception
\* being that of the fetch that failed first; it has then returned no list, and
\* a search_product that returned a list had no failed fetch
FaultPropagates ==
    /\ (\E j \in 1..Len(pages) : pages[j].st = "failed") =>
            /\ spc = "raised"
            /\ s_exc = pages[FirstFailed].offset
    /\ spc = "raised" =>
            /\ answer = <<>>
            /\ s_exc >= 0
            /\ pages = <<>> => s_exc = 0
    /\ spc = "returned" => s_exc = -1

\* the second of two remaining fetches failed after the first had returned its
\* products: search_product raised and returned nothing
LaterPageFailed ==
    /\ spc = "raised"
    /\ Len(pages) = 2
    /\ pages[1].st = "done"
    /\ Len(pages[1].prods) > 0
    /\ pages[2].st = "failed"
    /\ s_exc = pages[2].offset
    /\ answer = <<>>

EveryWaiterAdmitted ==
    \A c \in TTasks : (tpc[c] = "sleep") ~> (tpc[c] = "send")

\* a waiter that found the window filled again when it woke waited once more
\* and was then forwarded
WaitedTwiceThenAdmitted ==
    \E i \in 1..Len(passes) : passes[i].slept /\ passes[i].naps > 1 /\ passes[i].stamped

\* C21: every product built has the class its entity-type code selects: Currency
\* for CURRENCY, Stock for STOCK, ProductGeneric for every other code, member of
\* PRODUCT.TYPEID or not; the generator raises only on an id the payload lacks,
\* never on a code
EntitySpecialization ==
    /\ \A k \in 1..Len(f_yielded) :
          LET p == f_yielded[k] IN
          /\ p.code = f_products_info[p.id]
          /\ p.cls = (IF p.code = CURRENCY THEN "Currency"
                      ELSE IF p.code = STOCK THEN "Stock"
                      ELSE "ProductGeneric")
    /\ f_raised # "none" => f_base_iter[f_taken] \notin DOMAIN f_products_info
    /\ f_raised = "none" => Len(f_yielded) = f_taken

\* a payload with a code outside PRODUCT.TYPEID and a member code without a class
\* of its own: both products are generic, and the loop went on past the first
UnknownCodeGeneric ==
    /\ Len(f_yielded) = 2
    /\ f_raised = "none"
    /\ f_yielded[1].code \notin TYPEID /\ f_yielded[1].cls = "ProductGeneric"
    /\ f_yielded[2].member /\ f_yielded[2].code \notin {STOCK, CURRENCY}
    /\ f_yielded[2].cls = "ProductGeneric"

\* with size 1 every record is a chunk of its own and __products_from_attrs starts
\* each chunk with an empty products_dict: no two records share an instance
SharedAtSizeOne(j, k) == j = k

SizeOneSharesNothing ==
    size = 1 => \A j, k \in 1..Len(out) : (out[j].inst = out[k].inst) <=> SharedAtSizeOne(j, k)

\* C22: a generator consumed to its end has yielded, whatever its chunk size, what
\* it yields with chunk size 1: one product per record, with the ids of the
\* records in their order, and the same records sharing one instance
ChunkSizeIndependent ==
    gpc = "finished" =>
        /\ Len(out) = Len(attributes_iter)
        /\ \A k \in 1..Len(out) : out[k].info.id = attributes_iter[k].id
        /\ \A j, k \in 1..Len(out) :
              (out[j].inst = out[k].inst) <=> SharedAtSizeOne(j, k)

\* C23: every page fetch of a search_product call is sent with, and filtered on,
\* the product_type_id the caller passed (none when the caller passed None)
TypeRestrictionApplied ==
    \A k \in 1..Len(sent_types) : sent_types[k] = s_product_type_id

\* C24: with a constant positive max_requests the window never holds more than
\* max_requests stamps, however the callers and the waiters that wake interleave:
\* a caller's last look at the window and its own stamp are one step
WindowWithinBudget ==
    max_requests > 0 => Len(requests_times) <= max_requests

\* the window is full again after a waiter took the slot that came free, and
\* another waiter, back from its first sleep, found it taken and sleeps again
WokenWaiterFoundSlotTaken ==
    /\ max_requests > 0
    /\ Len(requests_times) = max_requests
    /\ \E c, d \in TTasks :
          /\ c # d
          /\ tpc[c] = "send" /\ slept[c]
          /\ tpc[d] = "sleep" /\ naps[d] = 2

\* C25: a call is suspended only while the pruned window still holds at least
\* max_requests stamps; a call arriving with fewer stamps within the trailing
\* period is forwarded without suspending
NoDelayUnderBudget ==
    [][\A c \in TTasks :
          (tpc'[c] = "sleep" /\ (tpc[c] # "sleep" \/ wake_at'[c] # wake_at[c]))
              => Len(requests_times') >= max_requests]_vars

\* C26: when two or more chunk resolutions raise, the exception reaches the
\* consumer only after every chunk task has been awaited, those submitted after
\* a task that failed while it was drained included
DrainOnSeveralFailures ==
    (gpc = "raised" /\ exc.kind = "task" /\ Cardinality(FailedTasks) >= 2)
        => awaited = 1..NTasks

\* C27: when a record fails validation after chunk tasks were created, init_batch
\* raises only after every created chunk task has been awaited
DrainOnValidationFailure ==
    (gpc = "raised" /\ exc.kind = "validation") => awaited = 1..NTasks

\* C28: while input records are still to be consumed, the resolution call of a
\* chunk that is already filled and scheduled can be issued
ChunkCallOverlapsInput ==
    \A i \in 1..NTasks :
        (gpc = "chunking" /\ consumed < Len(attributes_iter) /\ batches_awt[i].st = "pending")
            => ENABLED TaskStart(i)

\* C29: credentials are in the lockout set only while the last verdict the server
\* gave on them was bad credentials, and an api.login call is refused on the spot
\* only if that last verdict was not an accepted login
LockoutFollowsVerdict ==
    /\ \A c \in CredentialsSet : InFailureHash(c) => last_verdict[Hashed(c)] = "bad"
    /\ \A j \in 1..Len(attempts) : ~attempts[j].forwarded => attempts[j].verdict # "ok"

\* C30: an httpx client is opened at most once: no task calls its __aenter__
\* while another task's call is still in progress, and no acquire fails on a
\* client that is already being opened
SingleOpenPerLifecycle ==
    /\ \A k \in Clients : opens[k] <= 1
    /\ \A t \in CTasks : result[t] # "enter_raised"
====
